---- MODULE Spec2Model ----
(***************************************************************************)
(* A model of youtube_screenshot_pdf.py: the frame-extraction pipeline     *)
(* (capture_screenshots: duration probe, timestamp validation, the retry   *)
(* loop over ffmpeg and the OpenCV fallback) and the document assembly     *)
(* (create_pdf), as driven by the command line (main) and by the GUI       *)
(* worker thread (YouTubeScreenshotGUI._process_worker).                   *)
(*                                                                         *)
(* Time.  Timestamps are Python floats; here a timestamp is a whole number *)
(* of ticks, TicksPerSec ticks to the second, so that two timestamps can   *)
(* share an integer truncation (int(t)).  A duration is kept as a fraction *)
(* num/den of seconds, because the probe divides (frames / fps).           *)
(*                                                                         *)
(* Files.  The scratch directory is a set of <<path, content>> pairs, at   *)
(* most one per path; a path is <<i, int(t)>>, the two fields of the file  *)
(* name screenshot_{i:03d}_{int(t)}s.jpg, and the content of an image is   *)
(* the timestamp whose frame was written to it.  The directory is empty    *)
(* when a run starts.  print never raises.                                 *)
(***************************************************************************)
EXTENDS Integers, Sequences, FiniteSets

\* ------------------------------------------------------------------ bounds
MaxLen == 3          \* longest requested timestamp list
MaxT == 3            \* largest requested timestamp, in ticks
TicksPerSec == 2     \* resolution of a timestamp
MaxCallLen == 2      \* longest list of a direct call that runs the retry loop
MaxRetriesArg == 3   \* largest max_retries a direct call passes
MaxDuration == 12    \* longest video of interval mode, in seconds
MaxInterval == 4     \* largest --interval, in seconds
MaxSecs == 10        \* largest timestamp of a run on whole seconds, in seconds

\* ------------------------------------------------------- program constants
DefaultMaxRetries == 3   \* def capture_screenshots(..., max_retries=3)
Buffer == 60             \* duration = max(timestamps) + 60
MsPerSec == 1000         \* cap.get(CAP_PROP_POS_MSEC) / 1000.0

None == "None"
NoSrc == [local |-> FALSE, fps |-> 0, frames |-> 0, pos |-> -1]   \* video_path is None
NoDuration == [num |-> 0, den |-> 0]    \* duration is not assigned
NoWarning == -1    \* the warning of line 204 was not printed
NoOther == [pc |-> "none", timestamp |-> 0, image_paths |-> <<>>]   \* no second worker
NoAttempt ==       \* no iteration yet
  [i |-> 0, ff |-> None, decode |-> FALSE, cv |-> None, via |-> None, waits |-> 0]
NoRun == [written |-> FALSE, pages |-> <<>>, kept |-> FALSE]   \* create_pdf not called twice

VARIABLES
  mode,              \* "cli" (main), "gui" (_process_worker), "call" (a direct call)
  pc,                \* position of the caller: fetch, sort, capture, assemble, done
  src,               \* what cv2 reports of the media: local, fps, frames, pos
  ffmpeg,            \* shutil.which('ffmpeg') finds the tool
  decodable,         \* the host promises: cv2 opens the source and reads a frame, always
  writable,          \* the host promises: cv2.imwrite leaves a non-empty file, always
  timestamps,        \* the caller's list of timestamps
  max_retries,       \* capture_screenshots' parameter
  video_duration,    \* the duration yt-dlp reports, in ticks
  interval,          \* args.interval / interval_var, 0 when timestamps are entered
  gi,                \* _process_worker: index of the for loop over timestamps
  image_paths,       \* the caller's list of captured image paths
  csPc,              \* capture_screenshots: idle, probe, loop, exhausted, returned
  csArg,             \* capture_screenshots: its timestamps argument
  csExit,            \* which return statement ended the call
  probeOut,          \* what the probe of the call met: unopened, raise, ok
  dropWarning,       \* the count printed by the warning of line 204, or NoWarning
  duration,          \* the probed duration, NoDuration before the probe or when it raised
  valid_timestamps,
  i,                 \* enumerate(valid_timestamps, 1)
  retry,             \* range(max_retries)
  images,
  files,             \* the scratch directory
  pdfWritten,        \* pdf.output has written the document
  pdfPages,          \* the image pages of the document, in order
  createResult,      \* what create_pdf returned: None, "True", "False"
  removeLog,         \* the paths os.remove was called on, in order
  warnings,          \* number of "Could not delete" warnings printed
  assemblerCalls,    \* number of create_pdf invocations
  firstRun,          \* what the first of two create_pdf calls on one list left
  nTried,            \* timestamps of the current call with at least one attempt
  attempts,          \* iterations of the retry loop made for the current timestamp
  captured,          \* timestamps whose capture succeeded, in program order
  ffmpegRunning,     \* an ffmpeg process started by the run has not ended
  nProbes,           \* number of duration probes the run has made
  events,            \* the percents _update_status was given by the worker, in order
  tempVideo,         \* the downloaded temporary video: "none", "present",
                     \* "removed", or "kept" when os.remove failed
  other,             \* a second GUI worker running at the same time, if any
  traced,            \* the attempts of the call are recorded in lastAttempt
  lastAttempt        \* the latest iteration of the retry loop, when traced

vars == <<mode, pc, src, ffmpeg, decodable, writable, timestamps, max_retries,
          video_duration, interval, gi, image_paths,
          csPc, csArg, csExit, probeOut, dropWarning, duration, valid_timestamps, i, retry,
          images, files, pdfWritten, pdfPages, createResult, removeLog, warnings,
          assemblerCalls, firstRun, nTried, attempts, captured, ffmpegRunning,
          nProbes, events, other, tempVideo, traced, lastAttempt>>

argVars == <<video_duration, interval>>
envVars == <<mode, src, ffmpeg, decodable, writable, timestamps, max_retries, argVars>>
callerVars == <<envVars, pc, gi, image_paths>>
csVars == <<csPc, csArg, csExit, probeOut, dropWarning, duration, valid_timestamps, i, retry, images>>
pdfVars == <<pdfWritten, pdfPages, createResult, removeLog, warnings, assemblerCalls>>
histVars == <<nTried, attempts, captured>>
runVars == <<ffmpegRunning, firstRun, traced, lastAttempt, nProbes>>

\* ----------------------------------------------------------------- helpers
TS == 0..MaxT

RECURSIVE SeqsUpTo(_, _)
SeqsUpTo(S, n) ==
  IF n = 0 THEN {<<>>}
  ELSE LET shorter == SeqsUpTo(S, n - 1)
       IN shorter \cup {Append(s, x) : s \in {q \in shorter : Len(q) = n - 1}, x \in S}

IsSorted(s) == \A k \in 1..(Len(s) - 1) : s[k] <= s[k + 1]

RECURSIVE Insert(_, _)
Insert(s, x) ==
  IF s = <<>> THEN <<x>>
  ELSE IF x < Head(s) THEN <<x>> \o s
  ELSE <<Head(s)>> \o Insert(Tail(s), x)

\* list.sort(): ascending and stable
RECURSIVE Sorted(_)
Sorted(s) == IF s = <<>> THEN <<>> ELSE Insert(Sorted(SubSeq(s, 1, Len(s) - 1)), s[Len(s)])

RECURSIVE SeqMax(_)
SeqMax(s) ==
  IF Len(s) = 1 THEN s[1]
  ELSE LET m == SeqMax(Tail(s)) IN IF s[1] >= m THEN s[1] ELSE m

\* int(timestamp), in seconds
IntTrunc(t) == t \div TicksPerSec

\* os.path.join(output_dir, f"screenshot_{i:03d}_{int(timestamp)}s.jpg")
ImgPath(k, t) == <<k, IntTrunc(t)>>

\* str(n) of an int n >= 0, as character codes
RECURSIVE Digits(_)
Digits(n) == IF n < 10 THEN <<48 + n>> ELSE Digits(n \div 10) \o <<48 + (n % 10)>>

\* f"{n:03d}": zero-padded to three characters, longer when n > 999
Pad3(n) ==
  LET d == Digits(n)
  IN IF Len(d) >= 3 THEN d ELSE [k \in 1..(3 - Len(d)) |-> 48] \o d

\* The file name of the path p, without what all names share: the
\* characters of f"{i:03d}_{int(timestamp)}s" (95 is "_", 115 is "s").
ImgName(p) == Pad3(p[1]) \o <<95>> \o Digits(p[2]) \o <<115>>

Exists(fs, p) == \E f \in fs : f[1] = p
Content(fs, p) == (CHOOSE f \in fs : f[1] = p)[2]
WriteFile(fs, p, c) == {f \in fs : f[1] # p} \cup {<<p, c>>}
RemoveFile(fs, p) == {f \in fs : f[1] # p}

\* ------------------------------------------------- the duration probe
\* What cv2.VideoCapture reports of a media locator.  local: the locator is
\* an existing file (download mode); fps, frames: CAP_PROP_FPS and
\* CAP_PROP_FRAME_COUNT; pos: CAP_PROP_POS_MSEC.
SrcKinds ==
  { [local |-> TRUE,  fps |-> 2, frames |-> 2, pos |-> 0],
    [local |-> TRUE,  fps |-> 0, frames |-> 0, pos |-> 0],
    [local |-> FALSE, fps |-> 2, frames |-> 2, pos |-> 0],
    [local |-> FALSE, fps |-> 0, frames |-> 0, pos |-> MsPerSec] }

\* duration <= 0, for a duration num/den with den > 0
NonPositive(d) == d.num <= 0

\* lines 188-196: the duration capture_screenshots validates against
ProbeDuration(s, ts) ==
  IF s.local /\ s.fps > 0 /\ s.frames > 0
  THEN [num |-> s.frames, den |-> s.fps]
  ELSE LET d == [num |-> s.pos, den |-> MsPerSec]
       IN IF NonPositive(d) /\ Len(ts) > 0 /\ SeqMax(ts) > 0
          THEN [num |-> SeqMax(ts) + Buffer * TicksPerSec, den |-> TicksPerSec]
          ELSE d

\* 0 <= t <= duration, t in ticks and the duration d.num/d.den in seconds
InRange(t, d) == 0 <= t /\ t * d.den <= d.num * TicksPerSec

\* Faulty variant of the validation: an out-of-range timestamp is clamped to
\* the duration instead of dropped.
RECURSIVE ValidateClamps(_, _)
ValidateClamps(ts, d) ==
  IF ts = <<>> THEN <<>>
  ELSE IF InRange(Head(ts), d) THEN <<Head(ts)>> \o ValidateClamps(Tail(ts), d)
  ELSE <<(d.num * TicksPerSec) \div d.den>> \o ValidateClamps(Tail(ts), d)

\* Faulty variant of the validation: nothing is filtered.
ValidateKeepsAll(ts, d) == ts

\* line 202: [t for t in timestamps if 0 <= t <= duration]
RECURSIVE Validate(_, _)
Validate(ts, d) ==
  IF ts = <<>> THEN <<>>
  ELSE IF InRange(Head(ts), d) THEN <<Head(ts)>> \o Validate(Tail(ts), d)
  ELSE Validate(Tail(ts), d)


\* ------------------------------------------------------------------- Init
\* The locals of capture_screenshots before a call
NoCall ==
  /\ csArg = <<>>
  /\ csExit = None
  /\ probeOut = None
  /\ dropWarning = NoWarning
  /\ duration = NoDuration
  /\ valid_timestamps = <<>>
  /\ i = 1
  /\ retry = 0
  /\ images = <<>>
  /\ nTried = 0
  /\ attempts = 0

\* One run at a time.
Alone == other = NoOther

\* The timestamps are entered by the user: no interval.
Entered ==
  /\ video_duration = 0
  /\ interval = 0

InitRest ==
  /\ gi = 1
  /\ image_paths = <<>>
  /\ files = {}
  /\ pdfWritten = FALSE
  /\ pdfPages = <<>>
  /\ createResult = None
  /\ removeLog = <<>>
  /\ warnings = 0
  /\ assemblerCalls = 0
  /\ captured = <<>>
  /\ ffmpegRunning = FALSE
  /\ firstRun = NoRun
  /\ traced = FALSE
  /\ lastAttempt = NoAttempt
  /\ nProbes = 0
  /\ events = <<>>
  /\ tempVideo = "none"

\* A run of the program: the user's timestamps are parsed (never empty, never
\* negative), the video is not fetched yet.  The host promises nothing.
Init ==
  /\ mode \in {"cli", "gui"}
  /\ pc = "fetch"
  /\ src = NoSrc
  /\ ffmpeg \in BOOLEAN
  /\ decodable = FALSE
  /\ writable = FALSE
  /\ timestamps \in (SeqsUpTo(TS, MaxLen) \ {<<>>})
  /\ max_retries = DefaultMaxRetries
  /\ Entered
  /\ Alone
  /\ csPc = "idle"
  /\ NoCall
  /\ InitRest

\* A run of the program on a host without ffmpeg whose decoder always opens
\* the source and always reads a frame.
InitDecodable ==
  /\ mode \in {"cli", "gui"}
  /\ pc = "fetch"
  /\ src = NoSrc
  /\ ffmpeg = FALSE
  /\ decodable = TRUE
  /\ writable \in BOOLEAN
  /\ timestamps \in (SeqsUpTo(TS, MaxLen) \ {<<>>})
  /\ max_retries = DefaultMaxRetries
  /\ Entered
  /\ Alone
  /\ csPc = "idle"
  /\ NoCall
  /\ InitRest

\* capture_screenshots called directly: control is at the probe.
InitDirect ==
  /\ mode = "call"
  /\ pc = "capture"
  /\ src \in SrcKinds
  /\ ffmpeg \in BOOLEAN
  /\ decodable = FALSE
  /\ writable = FALSE
  /\ Entered
  /\ Alone
  /\ csPc = "probe"
  /\ csArg = timestamps
  /\ csExit = None
  /\ probeOut = None
  /\ dropWarning = NoWarning
  /\ duration = NoDuration
  /\ valid_timestamps = <<>>
  /\ i = 1
  /\ retry = 0
  /\ images = <<>>
  /\ nTried = 0
  /\ attempts = 0
  /\ InitRest

\* A direct call on any list, sorted or not, and any max_retries.
InitCall ==
  /\ timestamps \in SeqsUpTo(TS, MaxCallLen)
  /\ max_retries \in 0..MaxRetriesArg
  /\ InitDirect

\* A direct call with any max_retries on timestamps that are the first
\* instant of the video or the latest instant a user may enter.
InitTerminate ==
  /\ timestamps \in SeqsUpTo({0, MaxT}, MaxCallLen)
  /\ max_retries \in 0..MaxRetriesArg
  /\ InitDirect

\* A direct call on one timestamp, as the GUI worker makes it, with any
\* max_retries, its attempts recorded.  The directory is empty or holds an
\* image that an earlier call left at the path of this one.
InitAttempt ==
  /\ mode = "call"
  /\ pc = "capture"
  /\ src \in SrcKinds
  /\ ffmpeg \in BOOLEAN
  /\ decodable = FALSE
  /\ writable = FALSE
  /\ timestamps \in {<<t>> : t \in TS}
  /\ max_retries \in 0..MaxRetriesArg
  /\ Entered
  /\ Alone
  /\ csPc = "probe"
  /\ csArg = timestamps
  /\ csExit = None
  /\ probeOut = None
  /\ dropWarning = NoWarning
  /\ duration = NoDuration
  /\ valid_timestamps = <<>>
  /\ i = 1
  /\ retry = 0
  /\ images = <<>>
  /\ nTried = 0
  /\ attempts = 0
  /\ gi = 1
  /\ image_paths = <<>>
  /\ files \in {{}} \cup {{<<ImgPath(1, timestamps[1]), c>>} : c \in TS}
  /\ pdfWritten = FALSE
  /\ pdfPages = <<>>
  /\ createResult = None
  /\ removeLog = <<>>
  /\ warnings = 0
  /\ assemblerCalls = 0
  /\ captured = <<>>
  /\ ffmpegRunning = FALSE
  /\ firstRun = NoRun
  /\ traced = TRUE
  /\ lastAttempt = NoAttempt
  /\ nProbes = 0
  /\ events = <<>>
  /\ tempVideo = "none"

\* A direct call on any list, sorted or not, empty or not, followed through
\* the probe and the validation.
InitValidate ==
  /\ timestamps \in SeqsUpTo(TS, MaxLen)
  /\ max_retries = DefaultMaxRetries
  /\ InitDirect

\* Interval mode, after the video was fetched: the timestamps are still to
\* be generated from the reported duration (any float >= 0) and the
\* interval (any int > 0; line 431 and line 1007 let no other through).
InitInterval ==
  /\ mode \in {"cli", "gui"}
  /\ pc = "generate"
  /\ src \in SrcKinds
  /\ ffmpeg \in BOOLEAN
  /\ decodable = FALSE
  /\ writable = FALSE
  /\ timestamps = <<>>
  /\ max_retries = DefaultMaxRetries
  /\ video_duration \in 0..(MaxDuration * TicksPerSec)
  /\ interval \in 1..MaxInterval
  /\ Alone
  /\ csPc = "idle"
  /\ NoCall
  /\ InitRest

\* A run of the program on timestamps of whole seconds, up to MaxSecs.
InitNames ==
  /\ mode \in {"cli", "gui"}
  /\ pc = "fetch"
  /\ src = NoSrc
  /\ ffmpeg \in BOOLEAN
  /\ decodable = FALSE
  /\ writable = FALSE
  /\ timestamps \in (SeqsUpTo({sec * TicksPerSec : sec \in 0..MaxSecs}, MaxCallLen) \ {<<>>})
  /\ max_retries = DefaultMaxRetries
  /\ Entered
  /\ Alone
  /\ csPc = "idle"
  /\ NoCall
  /\ InitRest

\* 'Process Video' pressed twice: a GUI worker starts while a second
\* worker, on one timestamp of another video, is at its capture.  Both use
\* the directory high_res_screenshots of the working directory.
InitTwoRuns ==
  /\ mode = "gui"
  /\ pc = "fetch"
  /\ src = NoSrc
  /\ ffmpeg = FALSE
  /\ decodable = FALSE
  /\ writable = FALSE
  /\ timestamps \in (SeqsUpTo(TS, MaxCallLen) \ {<<>>})
  /\ max_retries = DefaultMaxRetries
  /\ Entered
  /\ other \in {[pc |-> "capture", timestamp |-> t, image_paths |-> <<>>] : t \in TS}
  /\ csPc = "idle"
  /\ NoCall
  /\ InitRest

\* create_pdf called directly on the images of a capture: the k-th image
\* shows the k-th timestamp.
InitAssemble ==
  /\ mode = "call"
  /\ pc = "assemble"
  /\ src \in SrcKinds
  /\ ffmpeg = FALSE
  /\ decodable = FALSE
  /\ writable = FALSE
  /\ timestamps \in (SeqsUpTo(TS, MaxLen) \ {<<>>})
  /\ max_retries = DefaultMaxRetries
  /\ Entered
  /\ Alone
  /\ csPc = "idle"
  /\ NoCall
  /\ gi = 1
  /\ image_paths = [k \in 1..Len(timestamps) |-> ImgPath(k, timestamps[k])]
  /\ files = {<<ImgPath(k, timestamps[k]), timestamps[k]>> : k \in 1..Len(timestamps)}
  /\ pdfWritten = FALSE
  /\ pdfPages = <<>>
  /\ createResult = None
  /\ removeLog = <<>>
  /\ warnings = 0
  /\ assemblerCalls = 0
  /\ captured = timestamps
  /\ ffmpegRunning = FALSE
  /\ firstRun = NoRun
  /\ traced = FALSE
  /\ lastAttempt = NoAttempt
  /\ nProbes = 0
  /\ events = <<>>
  /\ tempVideo = "none"

\* ------------------------------------------------------------ the callers
\* list(range(start, stop, step)), step > 0
RECURSIVE Range(_, _, _)
Range(start, stop, step) ==
  IF start >= stop THEN <<>> ELSE <<start>> \o Range(start + step, stop, step)

\* Faulty variant of the generator: the stop of the range is int(duration).
GenerateExclusive(d, n) == Range(0, IntTrunc(d), n)

\* lines 157-158: list(range(0, int(duration) + 1, interval)), in seconds
generate_interval_timestamps(d, n) == Range(0, IntTrunc(d) + 1, n)

\* main lines 431-433, _process_worker lines 1050-1053: the generated
\* seconds are the run's timestamps
interval_timestamps ==
  /\ pc = "generate"
  /\ LET secs == generate_interval_timestamps(video_duration, interval)
     IN timestamps' = [k \in 1..Len(secs) |-> secs[k] * TicksPerSec]
  /\ pc' = "sort"
  /\ UNCHANGED <<mode, src, ffmpeg, decodable, writable, max_retries, argVars>>
  /\ UNCHANGED <<gi, image_paths, csVars, files, pdfVars, histVars, runVars, events, other, tempVideo>>

\* A percent value, kept as a fraction: line 1083 divides.
Percent(n) == [num |-> n, den |-> 1]

\* Faulty variant of the progress of the capture loop: not scaled to the
\* number of timestamps.
CaptureProgressUnscaled(k, total) == [num |-> 30 + k * 40, den |-> 1]

\* line 1083: progress = 30 + (i / total_screenshots * 40)
CaptureProgress(k, total) == [num |-> 30 * total + k * 40, den |-> total]

\* self._update_status(message, progress), in _process_worker only
Emit(percents) == events' = IF mode = "gui" THEN events \o percents ELSE events

\* get_youtube_stream_url / get_streaming_url: a playable locator, or None
\* (main and _process_worker then return).  The worker reports 10 before,
\* and 20 or 0 after (lines 1018, 1043, 1047).
get_video ==
  /\ pc = "fetch"
  /\ \E s \in SrcKinds \cup {NoSrc} :
       /\ src' = s
       /\ pc' = IF s = NoSrc THEN "done" ELSE "sort"
       /\ Emit(<<Percent(10), IF s = NoSrc THEN Percent(0) ELSE Percent(20)>>)
       \* get_youtube_stream_url leaves the file in temp_video_downloads
       /\ tempVideo' = IF s # NoSrc /\ s.local THEN "present" ELSE "none"
  /\ UNCHANGED <<mode, ffmpeg, decodable, writable, timestamps, max_retries, argVars>>
  /\ UNCHANGED <<gi, image_paths, csVars, files, pdfVars, histVars, runVars, other>>

\* Faulty variant of the caller: the timestamps are left as entered.
SortTimestampsNot(ts) == ts

\* timestamps.sort()
SortTimestamps(ts) == Sorted(ts)

sort_timestamps ==
  /\ pc = "sort"
  /\ timestamps' = SortTimestamps(timestamps)
  /\ pc' = "capture"
  /\ Emit(<<Percent(30)>>)     \* line 1073
  /\ UNCHANGED <<mode, src, ffmpeg, decodable, writable, max_retries, argVars>>
  /\ UNCHANGED <<gi, image_paths, csVars, files, pdfVars, histVars, runVars, other, tempVideo>>

\* The entry of capture_screenshots(video_path, arg): images = []
EnterCapture(arg) ==
  /\ csPc' = "probe"
  /\ csArg' = arg
  /\ csExit' = None
  /\ probeOut' = None
  /\ dropWarning' = NoWarning
  /\ duration' = NoDuration
  /\ valid_timestamps' = <<>>
  /\ i' = 1
  /\ retry' = 0
  /\ images' = <<>>
  /\ nTried' = 0
  /\ attempts' = 0

\* main: image_paths = capture_screenshots(video_path, timestamps)
main_call_capture ==
  /\ mode = "cli" /\ pc = "capture" /\ csPc = "idle"
  /\ EnterCapture(timestamps)
  /\ UNCHANGED <<callerVars, files, pdfVars, captured, runVars, events, other, tempVideo>>

\* _process_worker: single_image = capture_screenshots(video_path, [timestamp])
worker_call_capture ==
  /\ mode = "gui" /\ pc = "capture" /\ csPc = "idle"
  /\ gi <= Len(timestamps)
  /\ Emit(<<CaptureProgress(gi, Len(timestamps))>>)     \* lines 1083-1084
  /\ EnterCapture(<<timestamps[gi]>>)
  /\ UNCHANGED <<callerVars, files, pdfVars, captured, runVars, other, tempVideo>>

\* ------------------------------------------- capture_screenshots: the probe
\* Faulty variant of the warning: printed only when nothing is left.
DropWarningWhenNoneLeft(ts, valid) ==
  IF valid = <<>> /\ ts # <<>> THEN Len(ts) ELSE NoWarning

\* lines 203-204: if len(valid_timestamps) < len(timestamps): print(
\* f"Warning: {len(timestamps) - len(valid_timestamps)} timestamps were
\* outside video duration ...")
DropWarning(ts, valid) ==
  IF Len(valid) < Len(ts) THEN Len(ts) - Len(valid) ELSE NoWarning

\* What the probe can do: the capture does not open (return []), or
\* something between cv2.VideoCapture and the validation raises, or the
\* duration is computed.
ProbeOutcomes == IF decodable THEN {"raise", "ok"} ELSE {"unopened", "raise", "ok"}

\* Faulty variant of the probe: a capture that does not open is not
\* returned on, and the loop runs on the unvalidated list.
ProbeFallsThrough(out, s, ts) ==
  LET d == ProbeDuration(s, ts)
      v == Validate(ts, d)
  IN IF out \in {"unopened", "raise"}
     THEN [exit |-> None, duration |-> NoDuration, valid |-> ts, warning |-> NoWarning]
     ELSE [exit |-> IF v = <<>> THEN "novalid" ELSE None, duration |-> d, valid |-> v,
           warning |-> DropWarning(ts, v)]

\* lines 177-211: [exit, duration, valid_timestamps, warning] of the probe
\* and the validation; exit is the return statement taken, None when the
\* loop is next; warning is what line 204 printed.
Probe(out, s, ts) ==
  LET d == ProbeDuration(s, ts)
      v == Validate(ts, d)
  IN IF out = "unopened"
     THEN [exit |-> "unopened", duration |-> NoDuration, valid |-> <<>>,
           warning |-> NoWarning]
     ELSE IF out = "raise"
     THEN [exit |-> None, duration |-> NoDuration, valid |-> ts, warning |-> NoWarning]
     ELSE [exit |-> IF v = <<>> THEN "novalid" ELSE None, duration |-> d, valid |-> v,
           warning |-> DropWarning(ts, v)]

probe_duration ==
  /\ csPc = "probe"
  /\ \E out \in ProbeOutcomes :
       LET r == Probe(out, src, csArg)
       IN /\ duration' = r.duration
          /\ valid_timestamps' = r.valid
          /\ csExit' = r.exit
          /\ probeOut' = out
          /\ dropWarning' = r.warning
          /\ csPc' = IF r.exit = None THEN "loop" ELSE "returned"
  /\ nProbes' = nProbes + 1
  /\ UNCHANGED <<callerVars, csArg, i, retry, images, files, pdfVars, histVars>>
  /\ UNCHANGED <<ffmpegRunning, firstRun, traced, lastAttempt, events, other, tempVideo>>

\* ------------------------------------ capture_screenshots: the retry loop
FfOutcomes == IF ffmpeg THEN {"written", "rc0_nofile", "failed", "timeout", "raise"}
              ELSE {"absent"}
CvOutcomes == IF decodable /\ writable THEN {"written"}
              ELSE IF decodable THEN {"written", "nowrite"}
              ELSE {"unopened", "noframe", "written", "nowrite", "raise"}

\* Faulty variant of the success test of ffmpeg: the exit code alone.
FfmpegSuccessByExitCode(rc0, fs, p) == rc0

\* line 245: process.returncode == 0 and os.path.exists(img_path) and
\* os.path.getsize(img_path) > 0
FfmpegSuccess(rc0, fs, p) == rc0 /\ Exists(fs, p)

\* lines 270-275: ret, and os.path.exists(img_path) and
\* os.path.getsize(img_path) > 0
DecodeSuccess(ret, fs, p) == ret /\ Exists(fs, p)

\* Faulty variant of the fallback: decode-seek only after ffmpeg was tried.
FallsBackOnlyAfterTool(ff, ffOk) == ~ffOk /\ ff \notin {"raise", "absent"}

\* line 254, `if not success`: the decode-seek fallback runs in this
\* iteration unless ffmpeg succeeded or something raised before it.
FallsBack(ff, ffOk) == ~ffOk /\ ff # "raise"

\* One iteration of `for retry in range(max_retries)`, lines 217-288, for the
\* timestamp t and the file p, on the scratch directory fs.  ff is what the
\* ffmpeg call does ("absent": shutil.which finds none), cv what the decoder
\* does when it is reached.  decode: the fallback ran, and cv is then what
\* it did.  running: the iteration leaves its ffmpeg process running; communicate(timeout=15) raises TimeoutExpired without
\* ending the child, and the handler at line 250 only prints.
Iteration(ff, cv, fs, p, t) ==
  LET fs1 == IF ff = "written" THEN WriteFile(fs, p, t) ELSE fs
      ffOk == FfmpegSuccess(ff \in {"written", "rc0_nofile"}, fs1, p)
      decode == FallsBack(ff, ffOk)
      fs2 == IF decode /\ cv = "written" THEN WriteFile(fs1, p, t) ELSE fs1
      cvOk == decode /\ DecodeSuccess(cv \in {"written", "nowrite"}, fs2, p)
  IN [success |-> ffOk \/ cvOk,
      via |-> IF ffOk THEN "ffmpeg" ELSE IF cvOk THEN "decode" ELSE None,
      files |-> fs2,
      decode |-> decode,
      cv |-> IF decode THEN cv ELSE None,
      running |-> ff = "timeout"]

\* Faulty variant of the backoff: the decoder that does not open waits at
\* line 257 and again at the end of the iteration.
BackoffTwiceWhenUnopened(success, unopened, more) ==
  IF success THEN 0
  ELSE IF unopened THEN (IF more THEN 2 ELSE 1)
  ELSE IF more THEN 1 ELSE 0

\* The number of time.sleep(1) calls of an iteration.  A success breaks out
\* of the loop before any; a decoder that does not open sleeps at line 257
\* and continues, past the end of the iteration; every other failure
\* reaches lines 286-288, which sleep when another iteration follows
\* (more).
Backoff(success, unopened, more) ==
  IF success THEN 0
  ELSE IF unopened THEN 1
  ELSE IF more THEN 1 ELSE 0

\* Faulty variant of the retry bound: one iteration short.
MoreRetriesOneShort(r, n) == r + 1 < n - 1

\* range(max_retries) has a value after r
MoreRetries(r, n) == r + 1 < n

\* Faulty variant of the loop range: the iteration numbered max_retries
\* is made too.
InRetryRangeInclusive(r, n) == r <= n

\* line 217, `for retry in range(max_retries)`: r is a value of the range
InRetryRange(r, n) == r < n

\* An iteration of the retry loop.  A success appends the path and breaks
\* to the next timestamp; a failure goes to the next retry, or leaves the
\* loop exhausted.
capture_attempt ==
  /\ csPc = "loop"
  /\ i <= Len(valid_timestamps)
  /\ LET t == valid_timestamps[i]
         p == ImgPath(i, t)
     IN IF InRetryRange(retry, max_retries)
        THEN \E ff \in FfOutcomes, cv \in CvOutcomes :
               LET r == Iteration(ff, cv, files, p, t)
               IN /\ files' = r.files
                  /\ ffmpegRunning' = (ffmpegRunning \/ r.running)
                  /\ lastAttempt' = IF traced
                                    THEN [i |-> i, ff |-> ff, decode |-> r.decode,
                                          cv |-> r.cv, via |-> r.via,
                                          waits |-> Backoff(r.success, r.cv = "unopened",
                                                            MoreRetries(retry, max_retries))]
                                    ELSE lastAttempt
                  /\ UNCHANGED <<firstRun, traced, nProbes, events, other, tempVideo>>
                  /\ images' = IF r.success THEN Append(images, p) ELSE images
                  /\ captured' = IF r.success THEN Append(captured, t) ELSE captured
                  /\ nTried' = IF attempts = 0 THEN nTried + 1 ELSE nTried
                  /\ attempts' = IF r.success THEN 0 ELSE attempts + 1
                  /\ i' = IF r.success THEN i + 1 ELSE i
                  /\ retry' = IF r.success THEN 0 ELSE retry + 1
                  /\ csPc' = IF r.success \/ MoreRetries(retry, max_retries)
                             THEN "loop" ELSE "exhausted"
        ELSE \* max_retries = 0: the retry loop has no iteration
             /\ csPc' = "exhausted"
             /\ UNCHANGED <<files, images, captured, nTried, attempts, i, retry, runVars, events, other, tempVideo>>
  /\ UNCHANGED <<callerVars, csArg, csExit, probeOut, dropWarning, duration, valid_timestamps, pdfVars>>

\* lines 290-291: if not success: print("Failed to capture ..."), and the
\* next timestamp
capture_failed ==
  /\ csPc = "exhausted"
  /\ csPc' = "loop"
  /\ i' = i + 1
  /\ retry' = 0
  /\ attempts' = 0
  /\ UNCHANGED <<callerVars, csArg, csExit, probeOut, dropWarning, duration, valid_timestamps, images>>
  /\ UNCHANGED <<files, pdfVars, nTried, captured, runVars, events, other, tempVideo>>

\* lines 293-294: return images
capture_finish ==
  /\ csPc = "loop"
  /\ i > Len(valid_timestamps)
  /\ csPc' = "returned"
  /\ csExit' = "loop"
  /\ UNCHANGED <<callerVars, csArg, probeOut, dropWarning, duration, valid_timestamps, i, retry, images>>
  /\ UNCHANGED <<files, pdfVars, histVars, runVars, events, other, tempVideo>>

\* What a return statement of capture_screenshots hands back: `return []`
\* at lines 182 and 208, `return images` at line 294.
Returned == IF csExit = "loop" THEN images ELSE <<>>

\* Faulty variant of the caller: the document is assembled whatever was
\* captured.
HasImagesAlways(paths) == TRUE

\* os.remove(video_path) removes the file or raises; nothing to try when
\* no temporary video is there.
RemoveOutcomes(tv) == IF tv = "present" THEN BOOLEAN ELSE {TRUE}

\* cleanup_temp_files(video_path), called when the path is in
\* temp_video_downloads: os.remove, and a warning when it raises.
cleanup_temp_files(tv, removes) ==
  IF tv = "present" THEN (IF removes THEN "removed" ELSE "kept") ELSE tv

\* main line 477, `if image_paths:`; _process_worker line 1094,
\* `if not image_paths: return`
HasImages(paths) == paths # <<>>

\* main, lines 475-481
main_after_capture ==
  /\ mode = "cli" /\ pc = "capture" /\ csPc = "returned"
  /\ image_paths' = Returned
  /\ pc' = IF HasImages(Returned) THEN "assemble" ELSE "done"
  /\ csPc' = "idle"
  \* no image: main ends through its finally clause, lines 483-486
  /\ \E removes \in RemoveOutcomes(tempVideo) :
       tempVideo' = IF HasImages(Returned) THEN tempVideo
                    ELSE cleanup_temp_files(tempVideo, removes)
  /\ UNCHANGED <<envVars, gi>>
  /\ UNCHANGED <<csArg, csExit, probeOut, dropWarning, duration, valid_timestamps, i, retry, images>>
  /\ UNCHANGED <<files, pdfVars, histVars, runVars, events, other>>

\* _process_worker, lines 1088-1092: if single_image: image_paths.extend(...);
\* the locals of the call are gone.
worker_after_capture ==
  /\ mode = "gui" /\ pc = "capture" /\ csPc = "returned"
  /\ image_paths' = image_paths \o Returned
  /\ gi' = gi + 1
  /\ csPc' = "idle"
  /\ csArg' = <<>>
  /\ csExit' = None
  /\ probeOut' = None
  /\ dropWarning' = NoWarning
  /\ duration' = NoDuration
  /\ valid_timestamps' = <<>>
  /\ i' = 1
  /\ retry' = 0
  /\ images' = <<>>
  /\ nTried' = 0
  /\ attempts' = 0
  /\ UNCHANGED <<envVars, pc, files, pdfVars, captured, runVars, events, other, tempVideo>>

\* _process_worker, lines 1094-1101: if not image_paths: return
worker_after_loop ==
  /\ mode = "gui" /\ pc = "capture" /\ csPc = "idle"
  /\ gi > Len(timestamps)
  /\ pc' = IF HasImages(image_paths) THEN "assemble" ELSE "done"
  /\ Emit(<<IF HasImages(image_paths) THEN Percent(80) ELSE Percent(0)>>)  \* lines 1096, 1101
  /\ UNCHANGED <<envVars, gi, image_paths>>
  /\ UNCHANGED <<csVars, files, pdfVars, histVars, runVars, other, tempVideo>>

\* ------------------------------------------------------------- create_pdf
\* Faulty variant of the cleanup: the first os.remove that fails ends it.
RECURSIVE RemoveLoopStopsAtFailure(_, _, _, _)
RemoveLoopStopsAtFailure(paths, k, failAt, acc) ==
  IF k > Len(paths) THEN acc
  ELSE LET p == paths[k]
           removed == Exists(acc.files, p) /\ k \notin failAt
       IN IF removed
          THEN RemoveLoopStopsAtFailure(paths, k + 1, failAt,
                 [files |-> RemoveFile(acc.files, p),
                  log |-> Append(acc.log, p),
                  warnings |-> acc.warnings])
          ELSE [files |-> acc.files,
                log |-> Append(acc.log, p),
                warnings |-> acc.warnings + 1]

\* lines 346-350: for img in image_paths: os.remove(img), an OSError only
\* printed.  failAt: the positions whose os.remove fails for a reason of the
\* host's; a file that is already gone fails too (FileNotFoundError).
RECURSIVE RemoveLoop(_, _, _, _)
RemoveLoop(paths, k, failAt, acc) ==
  IF k > Len(paths) THEN acc
  ELSE LET p == paths[k]
           removed == Exists(acc.files, p) /\ k \notin failAt
       IN RemoveLoop(paths, k + 1, failAt,
                     [files |-> IF removed THEN RemoveFile(acc.files, p) ELSE acc.files,
                      log |-> Append(acc.log, p),
                      warnings |-> IF removed THEN acc.warnings ELSE acc.warnings + 1])

\* Faulty variant of create_pdf: the images are removed whether or not the
\* document was written.
CreatePdfCleansAlways(paths, fs, writes, failAt) ==
  LET ok == writes /\ \A k \in 1..Len(paths) : Exists(fs, paths[k])
      del == RemoveLoop(paths, 1, failAt, [files |-> fs, log |-> <<>>, warnings |-> 0])
  IN [result |-> IF ok THEN "True" ELSE "False",
      paths |-> paths,
      written |-> ok,
      pages |-> IF ok THEN [k \in 1..Len(paths) |-> Content(fs, paths[k])] ELSE <<>>,
      files |-> del.files,
      log |-> del.log,
      warnings |-> del.warnings]

\* Faulty variant of create_pdf: the caller's list is consumed while the
\* pages are added.
CreatePdfConsumesList(paths, fs, writes, failAt) ==
  LET ok == writes /\ \A k \in 1..Len(paths) : Exists(fs, paths[k])
      del == RemoveLoop(paths, 1, failAt, [files |-> fs, log |-> <<>>, warnings |-> 0])
  IN IF ok
     THEN [result |-> "True",
           paths |-> <<>>,
           written |-> TRUE,
           pages |-> [k \in 1..Len(paths) |-> Content(fs, paths[k])],
           files |-> del.files,
           log |-> del.log,
           warnings |-> del.warnings]
     ELSE [result |-> "False",
           paths |-> paths,
           written |-> FALSE,
           pages |-> <<>>,
           files |-> fs,
           log |-> <<>>,
           warnings |-> 0]

\* lines 297-362.  writes: pdf.output (and everything before it) raises
\* nothing; pdf.image raises on a file that does not exist.  The images are
\* read when the document is built, removed only after it is written.
\* paths: the caller's list after the call; create_pdf only reads it.
CreatePdf(paths, fs, writes, failAt) ==
  LET ok == writes /\ \A k \in 1..Len(paths) : Exists(fs, paths[k])
      del == RemoveLoop(paths, 1, failAt, [files |-> fs, log |-> <<>>, warnings |-> 0])
  IN IF ok
     THEN [result |-> "True",
           paths |-> paths,
           written |-> TRUE,
           pages |-> [k \in 1..Len(paths) |-> Content(fs, paths[k])],
           files |-> del.files,
           log |-> del.log,
           warnings |-> del.warnings]
     ELSE [result |-> "False",
           paths |-> paths,
           written |-> FALSE,
           pages |-> <<>>,
           files |-> fs,
           log |-> <<>>,
           warnings |-> 0]

\* main line 479, _process_worker line 1103
create_pdf ==
  /\ pc = "assemble"
  /\ \E writes \in BOOLEAN :
       \E failAt \in (IF writes THEN SUBSET (1..Len(image_paths)) ELSE {{}}) :
         LET r == CreatePdf(image_paths, files, writes, failAt)
         IN /\ createResult' = r.result
            /\ image_paths' = r.paths
            /\ pdfWritten' = r.written
            /\ pdfPages' = r.pages
            /\ files' = r.files
            /\ removeLog' = r.log
            /\ warnings' = r.warnings
            \* lines 1103-1113: the worker reports 100 on True, 0 on False
            /\ Emit(<<IF r.result = "True" THEN Percent(100) ELSE Percent(0)>>)
  /\ assemblerCalls' = assemblerCalls + 1
  /\ pc' = "done"
  \* main: the finally clause, lines 483-486; the worker: lines 1115-1118
  /\ \E removes \in RemoveOutcomes(tempVideo) :
       tempVideo' = cleanup_temp_files(tempVideo, removes)
  /\ UNCHANGED <<envVars, gi, csVars, histVars, runVars, other>>

\* A caller of create_pdf calls it a second time on the list it passed the
\* first time.  kept: every image of the list is still in the directory.
create_pdf_again ==
  /\ mode = "call" /\ pc = "done" /\ assemblerCalls = 1
  /\ pc' = "assemble"
  /\ firstRun' = [written |-> pdfWritten,
                  pages |-> pdfPages,
                  kept |-> \A k \in 1..Len(image_paths) : Exists(files, image_paths[k])]
  /\ UNCHANGED <<envVars, gi, image_paths, csVars, files, pdfVars, histVars, ffmpegRunning,
               traced, lastAttempt, nProbes, events, other, tempVideo>>

\* ------------------------------------------------------ the second worker
\* The frame of the second worker's video at t: never a frame of the first.
OtherFrame(t) == -(t + 1)

\* The second worker's capture_screenshots(video_path, [timestamp]), lines
\* 1087-1092 and 1094-1097: the image is written to
\* screenshot_001_{int(t)}s.jpg, or the call returns [] and the worker ends.
other_capture ==
  /\ other.pc = "capture"
  /\ \E ok \in BOOLEAN :
       LET p == ImgPath(1, other.timestamp)
       IN IF ok
          THEN /\ files' = WriteFile(files, p, OtherFrame(other.timestamp))
               /\ other' = [other EXCEPT !.pc = "assemble", !.image_paths = <<p>>]
          ELSE /\ files' = files
               /\ other' = [other EXCEPT !.pc = "done"]
  /\ UNCHANGED <<callerVars, csVars, pdfVars, histVars, runVars, events, tempVideo>>

\* The second worker's create_pdf(image_paths, ...), line 1103
other_create_pdf ==
  /\ other.pc = "assemble"
  /\ \E writes \in BOOLEAN :
       \E failAt \in (IF writes THEN SUBSET (1..Len(other.image_paths)) ELSE {{}}) :
         files' = CreatePdf(other.image_paths, files, writes, failAt).files
  /\ other' = [other EXCEPT !.pc = "done"]
  /\ UNCHANGED <<callerVars, csVars, pdfVars, histVars, runVars, events, tempVideo>>

\* --------------------------------------------------------- specifications
capture_screenshots ==
  probe_duration \/ capture_attempt \/ capture_failed \/ capture_finish

Next ==
  \/ get_video
  \/ sort_timestamps
  \/ main_call_capture
  \/ worker_call_capture
  \/ capture_screenshots
  \/ main_after_capture
  \/ worker_after_capture
  \/ worker_after_loop
  \/ create_pdf

\* The program: main or the GUI worker, max_retries at its default.
Spec == Init /\ [][Next]_vars

\* The program on a host without ffmpeg and with a decodable source.
SpecDecodable == InitDecodable /\ [][Next]_vars

\* capture_screenshots alone, on any argument.
SpecCall == InitCall /\ [][capture_screenshots]_vars

\* capture_screenshots alone on one timestamp, its attempts recorded.
SpecAttempt == InitAttempt /\ [][capture_screenshots]_vars

\* capture_screenshots called directly, every call it makes returning: the
\* function is sequential code, so it takes its next step whenever it has
\* one.
SpecCallFair ==
  InitTerminate /\ [][capture_screenshots]_vars /\ WF_vars(capture_screenshots)

\* The probe and the validation of capture_screenshots alone.
SpecValidate == InitValidate /\ [][probe_duration]_vars

\* The steps of the GUI worker, _process_worker
process_worker ==
  \/ get_video
  \/ sort_timestamps
  \/ worker_call_capture
  \/ capture_screenshots
  \/ worker_after_capture
  \/ worker_after_loop
  \/ create_pdf

\* Two GUI workers at the same time.
SpecTwoRuns ==
  InitTwoRuns /\ [][process_worker \/ other_capture \/ other_create_pdf]_vars

\* The program on timestamps of whole seconds.
SpecNames == InitNames /\ [][Next]_vars

\* create_pdf alone, called once or twice on one list.
SpecAssemble == InitAssemble /\ [][create_pdf \/ create_pdf_again]_vars

\* The generation of the timestamps of interval mode alone.
SpecInterval == InitInterval /\ [][interval_timestamps]_vars

\* ------------------------------------------------------------- properties
\* a is b with some elements left out, the others in b's order
RECURSIVE IsSubSeq(_, _)
IsSubSeq(a, b) ==
  IF a = <<>> THEN TRUE
  ELSE IF b = <<>> THEN FALSE
  ELSE IF Head(a) = Head(b) THEN IsSubSeq(Tail(a), Tail(b))
  ELSE IsSubSeq(a, Tail(b))

\* 0 <= t <= d, for t in ticks and d = d.num/d.den seconds
Within(t, d) == t >= 0 /\ t * d.den <= d.num * TicksPerSec

\* the validation has run on the probed duration
Validated == csPc \in {"loop", "exhausted", "returned"} /\ probeOut = "ok"

\* C1: once the validation of capture_screenshots has run, valid_timestamps
\* is the request with some elements left out and the others in the
\* request's order, each of its elements is within [0, duration], and it
\* has as many elements as the request has within [0, duration]: what lies
\* outside is dropped, not clamped, and nothing else is.
C1_ValidatedSublist ==
  Validated =>
    /\ IsSubSeq(valid_timestamps, csArg)
    /\ \A k \in 1..Len(valid_timestamps) : Within(valid_timestamps[k], duration)
    /\ Len(valid_timestamps) =
         Cardinality({k \in 1..Len(csArg) : Within(csArg[k], duration)})

\* C1's case: an unsorted request whose middle element exceeds the duration
\* (the list [10, 130, 60] against 120 s, scaled to one second).
C1_Witness ==
  /\ csPc = "loop"
  /\ duration = [num |-> 2, den |-> 2]
  /\ csArg = <<TicksPerSec - 1, TicksPerSec + 1, TicksPerSec>>
  /\ valid_timestamps = <<TicksPerSec - 1, TicksPerSec>>

\* C2: in every run that wrote the document, through main or through the
\* GUI worker, the document has one image page per captured timestamp and
\* page N+1 shows the frame of the N-th smallest captured timestamp.
C2_PagesAreTheCaptures ==
  pdfWritten =>
    /\ Len(pdfPages) = Len(captured)
    /\ \A n \in 1..Len(pdfPages) : pdfPages[n] = Sorted(captured)[n]

\* C3: when the retry loop of a timestamp ends without a success, exactly
\* max_retries iterations were made for it and its path is not in images;
\* the call goes on: when it returns from the loop every validated
\* timestamp has been processed, and attempted if max_retries > 0.
C3_RetryExhaustion ==
  /\ csPc = "exhausted" =>
       /\ attempts = max_retries
       /\ \A k \in 1..Len(images) : images[k] # ImgPath(i, valid_timestamps[i])
  /\ csExit = "loop" =>
       /\ i = Len(valid_timestamps) + 1
       /\ max_retries > 0 => nTried = Len(valid_timestamps)

\* C3's case: with the default max_retries the first of two timestamps
\* failed on every attempt and the second was captured.
C3_Witness ==
  /\ csExit = "loop"
  /\ max_retries = DefaultMaxRetries
  /\ Len(valid_timestamps) = 2
  /\ images = <<ImgPath(2, valid_timestamps[2])>>

\* every validated timestamp of the call that returned from the loop was
\* attempted and its path is in the returned list, in order
AllCaptured ==
  csExit = "loop" =>
    /\ nTried = Len(valid_timestamps)
    /\ Len(Returned) = Len(valid_timestamps)
    /\ \A k \in 1..Len(valid_timestamps) : Returned[k] = ImgPath(k, valid_timestamps[k])

C5_FailureKeepsImages ==
  createResult = "False" =>
    /\ removeLog = <<>>
    /\ ~pdfWritten
    /\ \A k \in 1..Len(image_paths) : Exists(files, image_paths[k])

\* C5's case: create_pdf failed on two images or more.
C5_Witness == createResult = "False" /\ Len(image_paths) >= 2

\* C6: when create_pdf has written the document it returns True, os.remove
\* was called on every image of its list, in order, and each image still in
\* the scratch directory accounts for a warning: a failed removal stops
\* neither the later removals nor the success.
C6_CleanupBestEffort ==
  pdfWritten =>
    /\ createResult = "True"
    /\ removeLog = image_paths
    /\ Cardinality({k \in 1..Len(image_paths) : Exists(files, image_paths[k])}) <= warnings
    /\ warnings <= Len(image_paths)

\* C6's case: the first of three removals failed, the two after it were
\* made, and create_pdf returned True.
C6_Witness ==
  /\ createResult = "True"
  /\ Len(image_paths) = 3
  /\ warnings = 1
  /\ Exists(files, image_paths[1])
  /\ ~Exists(files, image_paths[2])
  /\ ~Exists(files, image_paths[3])

C8_NoValidNoCapture ==
  (/\ csPc = "returned"
   /\ probeOut = "ok"
   /\ \A k \in 1..Len(csArg) : ~Within(csArg[k], duration)) =>
    /\ csExit = "novalid"
    /\ nTried = 0
    /\ Returned = <<>>

\* C8's case: a request of two timestamps, both beyond the duration.
C8_Witness ==
  /\ csPc = "returned"
  /\ csExit = "novalid"
  /\ Len(csArg) >= 2
  /\ probeOut = "ok"

\* C9: while no timestamp has been captured, create_pdf is not invoked and
\* no document is written, in main and in the GUI worker.
C9_NoCaptureNoAssembly ==
  captured = <<>> =>
    /\ pc # "assemble"
    /\ assemblerCalls = 0
    /\ ~pdfWritten
    /\ createResult = None

\* C9's case: the GUI worker has ended after every call of
\* capture_screenshots came back empty.
C9_Witness ==
  /\ mode = "gui"
  /\ pc = "done"
  /\ src # NoSrc
  /\ gi = Len(timestamps) + 1
  /\ Len(timestamps) >= 2
  /\ captured = <<>>

\* C10: capture runs on ascending timestamps, and the list handed to
\* create_pdf has one path per captured timestamp, in the order of the
\* timestamps: the captured timestamps are the sorted request with the
\* failed ones left out.
C10_PathsInTimestampOrder ==
  /\ pc \in {"capture", "assemble"} => IsSorted(timestamps)
  /\ pc = "assemble" =>
       /\ Len(image_paths) = Len(captured)
       /\ \A k \in 1..Len(captured) : image_paths[k][2] = IntTrunc(captured[k])
       /\ IsSorted(captured)
       /\ IsSubSeq(captured, timestamps)

\* C10's case: of three distinct timestamps the
\* middle one failed; the paths of the other two are handed over in
\* ascending order.
C10_Witness ==
  /\ pc = "assemble"
  /\ Len(timestamps) = 3
  /\ timestamps[1] < timestamps[2] /\ timestamps[2] < timestamps[3]
  /\ captured = <<timestamps[1], timestamps[3]>>
  /\ Len(image_paths) = 2

\* C11: no ffmpeg process started by the run outlives the attempt that
\* started it: whenever control is between attempts, or the run has ended,
\* no such process is running.
C11_TimedOutToolKilled == ~ffmpegRunning

\* C12: once interval mode has generated the timestamps from a duration
\* d >= 0 and an interval n > 0, the list starts with 0, its k-th element is
\* (k-1)*n seconds, each element is <= d, and the multiple after the last
\* one is > d: the list is exactly the multiples of n within [0, d],
\* ascending.
C12_IntervalMultiples ==
  (interval > 0 /\ pc = "sort") =>
    /\ Len(timestamps) >= 1
    /\ timestamps[1] = 0
    /\ \A k \in 1..Len(timestamps) :
         /\ timestamps[k] = (k - 1) * interval * TicksPerSec
         /\ timestamps[k] <= video_duration
    /\ Len(timestamps) * interval * TicksPerSec > video_duration

\* C12's case: interval 3 s and duration 9.5 s give [0, 3, 6, 9] (the
\* interval 30 and the duration 95, scaled by ten).
C12_Witness ==
  /\ pc = "sort"
  /\ interval = 3
  /\ video_duration = 9 * TicksPerSec + 1
  /\ timestamps = <<0, 3 * TicksPerSec, 6 * TicksPerSec, 9 * TicksPerSec>>

CapturedPaths == IF mode = "gui" THEN image_paths \o images ELSE images

\* C14: in one run, through main or through the GUI worker, two captured
\* timestamps that differ are never written to the same image path.
C14_NoPathCollision ==
  \A j, k \in 1..Len(captured) :
    captured[j] # captured[k] => CapturedPaths[j] # CapturedPaths[k]

\* a < b as Python compares strings: by the first character that differs,
\* a proper prefix first
RECURSIVE LexLess(_, _)
LexLess(a, b) ==
  IF b = <<>> THEN FALSE
  ELSE IF a = <<>> THEN TRUE
  ELSE IF Head(a) # Head(b) THEN Head(a) < Head(b)
  ELSE LexLess(Tail(a), Tail(b))

\* C15: in one run, through main or through the GUI worker, of two
\* captured timestamps the smaller one has the file name that sorts first
\* as a string.
C15_NamesSortAsTimestamps ==
  \A j, k \in 1..Len(captured) :
    captured[j] < captured[k] =>
      LexLess(ImgName(CapturedPaths[j]), ImgName(CapturedPaths[k]))

\* the durations a and b are the same number of seconds
SameDuration(a, b) == a.num * b.den = b.num * a.den

\* C16: when the probe of a non-empty request gave a duration, it is
\* frames / fps for a local source with both positive; otherwise the
\* reported position, and max(timestamps) + 60 s whenever that position is
\* not positive.
C16_DurationRule ==
  (probeOut = "ok" /\ csArg # <<>>) =>
    IF src.local /\ src.fps > 0 /\ src.frames > 0
    THEN SameDuration(duration, [num |-> src.frames, den |-> src.fps])
    ELSE IF src.pos <= 0
    THEN SameDuration(duration, [num |-> SeqMax(csArg) + Buffer * TicksPerSec,
                                 den |-> TicksPerSec])
    ELSE SameDuration(duration, [num |-> src.pos, den |-> MsPerSec])

\* C17: in every state of a run, each timestamp of the current call for
\* which an extraction attempt was made lies within [0, d], d the duration
\* the probe of the call computes for the source; also when the probe
\* raised after the source was opened.
C17_AttemptedWithinDuration ==
  \A k \in 1..nTried : Within(valid_timestamps[k], ProbeDuration(src, csArg))

\* C18: of the latest iteration of the retry loop: ffmpeg was run when it
\* is available; it counted as the success only if it exited with code 0
\* and the image file exists (non-empty) afterwards, and then decode-seek
\* did not run; decode-seek ran only when ffmpeg was absent, failed or
\* timed out, never after its success and never when ffmpeg was run and
\* did not fail; after a success the loop is at the next timestamp, so
\* that no further attempt is made for the captured one.
C18_ToolFirstThenDecode ==
  lastAttempt # NoAttempt =>
    LET a == lastAttempt
        p == ImgPath(a.i, valid_timestamps[a.i])
    IN /\ ffmpeg <=> a.ff # "absent"
       /\ a.via = "ffmpeg" =>
            /\ a.ff \in {"written", "rc0_nofile"}
            /\ Exists(files, p)
            /\ ~a.decode
       /\ a.decode => a.ff \in {"absent", "failed", "rc0_nofile", "timeout"}
       /\ a.via = "decode" => a.decode /\ Exists(files, p)
       /\ a.via # None =>
            /\ i = a.i + 1 /\ retry = 0 /\ attempts = 0
            /\ images[Len(images)] = p
       /\ a.via = None => \A k \in 1..Len(images) : images[k] # p

\* C18's case: ffmpeg exited with code 0 and left no image, the directory
\* held none, and the frame was captured by decode-seek in the same
\* iteration.
C18_Witness ==
  /\ ffmpeg
  /\ lastAttempt.ff = "rc0_nofile"
  /\ lastAttempt.decode
  /\ lastAttempt.via = "decode"
  /\ csPc = "loop"

\* C19: once the validation has run, the dropped-timestamps warning was
\* printed exactly when a requested timestamp is missing from
\* valid_timestamps, its count is the number of requested timestamps
\* outside [0, duration], which is the number missing from
\* valid_timestamps, and while a timestamp is left the call does not
\* return before the loop.
C19_DropWarning ==
  Validated =>
    /\ dropWarning # NoWarning <=> Len(valid_timestamps) < Len(csArg)
    /\ dropWarning # NoWarning =>
         /\ dropWarning = Len(csArg) - Len(valid_timestamps)
         /\ dropWarning = Cardinality({k \in 1..Len(csArg) : ~Within(csArg[k], duration)})
    /\ valid_timestamps # <<>> => csExit \in {None, "loop"}

\* C19's case: one of three requested timestamps was dropped with a warning
\* and the call goes on to the loop with the other two.
C19_Witness ==
  /\ probeOut = "ok"
  /\ csPc = "loop"
  /\ Len(csArg) = 3
  /\ Len(valid_timestamps) = 2
  /\ dropWarning = 1

\* C20: a run, through main or through the GUI worker, makes one duration
\* probe at most, so that one probed duration serves every timestamp of
\* the run.
C20_ProbedOncePerRun == nProbes <= 1

\* the latest iteration failed and another iteration for the same
\* timestamp follows it
FailedAndRetried == lastAttempt.via = None /\ csPc = "loop" /\ retry > 0

\* C21: of the latest iteration of the retry loop: when it failed and
\* another iteration for the timestamp follows, exactly one backoff wait
\* was made after it, whether both strategies failed, the decoder did not
\* open, or an exception was raised; when it succeeded, none was made.
C21_OneBackoffBetweenAttempts ==
  lastAttempt # NoAttempt =>
    /\ FailedAndRetried => lastAttempt.waits = 1
    /\ lastAttempt.via # None => lastAttempt.waits = 0

\* C21's case: the decoder could not open the source, and another attempt
\* for the timestamp follows.
C21_Witness ==
  /\ FailedAndRetried
  /\ lastAttempt.cv = "unopened"
  /\ lastAttempt.waits = 1

\* C22: every percent the GUI worker has reported so far is within
\* [0, 100], and 100 was reported only if create_pdf has returned True.
C22_ProgressWithinBounds ==
  \A k \in 1..Len(events) :
    /\ 0 <= events[k].num
    /\ events[k].num <= 100 * events[k].den
    /\ events[k].num = 100 * events[k].den => createResult = "True"

\* C22's case: a GUI run of three timestamps that reported the progress of
\* each capture and ended with 100.
C22_Witness ==
  /\ mode = "gui"
  /\ pc = "done"
  /\ Len(timestamps) = 3
  /\ Len(events) = 8
  /\ events[6] = CaptureProgress(3, 3)
  /\ events[8] = Percent(100)

\* C23: until the document of a GUI run is written, every image the run
\* has captured is in the directory and shows a frame of the run's own
\* video: a second run at the same time has neither overwritten nor
\* deleted it.
C23_RunsDoNotInterfere ==
  (mode = "gui" /\ pc \in {"capture", "assemble"}) =>
    \A k \in 1..Len(image_paths) :
      /\ Exists(files, image_paths[k])
      /\ Content(files, image_paths[k]) >= 0

\* C24: one writer per image path at a time: the decode-seek fallback of an
\* iteration does not write the image while the ffmpeg process the same
\* iteration started for that path has timed out and was left running.
C24_OneWriterPerPath ==
  ~(/\ lastAttempt.ff = "timeout"
    /\ lastAttempt.decode
    /\ lastAttempt.cv = "written"
    /\ ffmpegRunning)

\* C25: a run that downloaded a temporary video does not end with the
\* file still in place and no removal tried, whatever the outcome.
C25_TempVideoCleanedUp == pc = "done" => tempVideo # "present"

\* C26: capture_screenshots returns; on the way no timestamp has more than
\* max_retries attempts, no image is recorded when max_retries is 0, and
\* the list returned is no longer than the validated list.
C26_CaptureTerminates ==
  /\ <>(csPc = "returned")
  /\ [](/\ attempts <= max_retries
        /\ retry <= max_retries
        /\ (max_retries = 0 => images = <<>>)
        /\ Len(Returned) <= Len(valid_timestamps))

\* C26's case: the call has returned from the loop after every attempt of
\* the largest retry budget failed for each of two timestamps.
C26_Witness ==
  /\ csPc = "returned"
  /\ csExit = "loop"
  /\ max_retries = MaxRetriesArg
  /\ Len(valid_timestamps) = 2
  /\ nTried = 2
  /\ images = <<>>
====
